---- MODULE Spec2Model ----
(***************************************************************************)
(* Model of the military asset management backend (backend/server.js over  *)
(* the relational schema of backend/schema.sql).  The store is the set of  *)
(* tables; every HTTP handler is a process that runs from one `await` on   *)
(* the store to the next, so handlers of different requests interleave at  *)
(* exactly the points where the code awaits pool.query.                    *)
(***************************************************************************)
EXTENDS Integers, FiniteSets, Sequences, TLC

\* ------------------------------------------------------------------------
\* Bounds of the model
\* ------------------------------------------------------------------------
\* number of business rows the API may add on top of the seeded database
\* in the specification that enumerates every request payload (Spec)
MaxRows == 1

\* the same, in the specification of concurrent well-formed requests
\* (SpecConc)
MaxConcRows == 2

\* the same, in the specification of the dashboard (SpecDash)
MaxDashRows == 1

\* the same, in the specification of every route (SpecApi)
MaxApiRows == 1

\* in the specification of login (SpecLogin): logins that reach the UPDATE
\* of last_login, and users changed behind the API
MaxLogins == 1
MaxUserChanges == 1

\* in the specification of the frontend (SpecApp): logins that reach the
\* UPDATE of last_login
MaxAppLogins == 1

\* request slots: handlers that may be in flight at the same time
Procs == {1, 2}

\* ------------------------------------------------------------------------
\* JSON / JavaScript values as they arrive in a request
\* ------------------------------------------------------------------------
\* a number n, the numeric string "n", a missing (undefined) field, null
Num(n) == [t |-> "num", v |-> n]
Str(n) == [t |-> "str", v |-> n]
Absent == [t |-> "absent", v |-> 0]
Null == [t |-> "null", v |-> 0]

\* JavaScript truthiness as used by `!x` : undefined, null and 0 are falsy,
\* a non-empty string (even "0") is truthy
Truthy(x) == \/ x.t = "str"
             \/ (x.t = "num" /\ x.v # 0)

\* JavaScript strict equality `===` : same type and same value
StrictEq(a, b) == a.t = b.t /\ a.v = b.v

\* the integer PostgreSQL binds for a parameter: a number or a numeric
\* string is coerced to the integer it denotes
PgInt(x) == x.v

\* a parameter PostgreSQL receives as NULL
PgIsNull(x) == x.t \in {"absent", "null"}

\* ------------------------------------------------------------------------
\* Seeded database (schema.sql)
\* ------------------------------------------------------------------------
BaseIds == 1..4
EquipmentTypeIds == 1..10
PersonnelIds == 1..7

Users == {
  [id |-> 1, role |-> "admin",     base_id |-> Null],
  [id |-> 2, role |-> "commander", base_id |-> Num(1)],
  [id |-> 3, role |-> "commander", base_id |-> Num(2)],
  [id |-> 4, role |-> "logistics", base_id |-> Num(4)] }

\* the rows of table users: the columns the server reads or writes
\* (last_login counts the UPDATEs of the column, 0 for NULL)
SeedUsers ==
  {[id |-> u.id, role |-> u.role, base_id |-> u.base_id, is_active |-> TRUE,
    last_login |-> 0] : u \in Users}

SeedAssets == {
  [id |-> 1,  base_id |-> 1, equipment_type_id |-> 1,  quantity |-> 250],
  [id |-> 2,  base_id |-> 1, equipment_type_id |-> 2,  quantity |-> 100],
  [id |-> 3,  base_id |-> 1, equipment_type_id |-> 3,  quantity |-> 300],
  [id |-> 4,  base_id |-> 1, equipment_type_id |-> 4,  quantity |-> 300],
  [id |-> 5,  base_id |-> 1, equipment_type_id |-> 5,  quantity |-> 15],
  [id |-> 6,  base_id |-> 1, equipment_type_id |-> 7,  quantity |-> 50],
  [id |-> 7,  base_id |-> 2, equipment_type_id |-> 1,  quantity |-> 200],
  [id |-> 8,  base_id |-> 2, equipment_type_id |-> 2,  quantity |-> 80],
  [id |-> 9,  base_id |-> 2, equipment_type_id |-> 3,  quantity |-> 250],
  [id |-> 10, base_id |-> 2, equipment_type_id |-> 5,  quantity |-> 12],
  [id |-> 11, base_id |-> 2, equipment_type_id |-> 6,  quantity |-> 3],
  [id |-> 12, base_id |-> 3, equipment_type_id |-> 1,  quantity |-> 180],
  [id |-> 13, base_id |-> 3, equipment_type_id |-> 3,  quantity |-> 200],
  [id |-> 14, base_id |-> 3, equipment_type_id |-> 5,  quantity |-> 10],
  [id |-> 15, base_id |-> 4, equipment_type_id |-> 1,  quantity |-> 500],
  [id |-> 16, base_id |-> 4, equipment_type_id |-> 2,  quantity |-> 200],
  [id |-> 17, base_id |-> 4, equipment_type_id |-> 3,  quantity |-> 400],
  [id |-> 18, base_id |-> 4, equipment_type_id |-> 9,  quantity |-> 100000],
  [id |-> 19, base_id |-> 4, equipment_type_id |-> 10, quantity |-> 50000] }

SeedPurchases == {
  [id |-> 1, base_id |-> 1, equipment_type_id |-> 1, quantity |-> 50,
   purchase_date |-> 20240115, created_by |-> 1],
  [id |-> 2, base_id |-> 2, equipment_type_id |-> 5, quantity |-> 5,
   purchase_date |-> 20240120, created_by |-> 1],
  [id |-> 3, base_id |-> 1, equipment_type_id |-> 3, quantity |-> 100,
   purchase_date |-> 20240210, created_by |-> 2],
  [id |-> 4, base_id |-> 3, equipment_type_id |-> 1, quantity |-> 75,
   purchase_date |-> 20240215, created_by |-> 1],
  [id |-> 5, base_id |-> 4, equipment_type_id |-> 9, quantity |-> 50000,
   purchase_date |-> 20240301, created_by |-> 4] }

SeedTransfers == {
  [id |-> 1, from_base_id |-> 1, to_base_id |-> 2, equipment_type_id |-> 1,
   quantity |-> 30, transfer_date |-> 20240125, status |-> "completed",
   created_by |-> 1],
  [id |-> 2, from_base_id |-> 4, to_base_id |-> 1, equipment_type_id |-> 1,
   quantity |-> 100, transfer_date |-> 20240205, status |-> "completed",
   created_by |-> 1],
  [id |-> 3, from_base_id |-> 2, to_base_id |-> 3, equipment_type_id |-> 5,
   quantity |-> 3, transfer_date |-> 20240220, status |-> "in_transit",
   created_by |-> 2],
  [id |-> 4, from_base_id |-> 4, to_base_id |-> 2, equipment_type_id |-> 9,
   quantity |-> 10000, transfer_date |-> 20240310, status |-> "completed",
   created_by |-> 4] }

SeedAssignments == {
  [id |-> 1, base_id |-> 1, equipment_type_id |-> 1, personnel_id |-> 1,
   assignment_date |-> 20240120, status |-> "active", created_by |-> 2],
  [id |-> 2, base_id |-> 1, equipment_type_id |-> 2, personnel_id |-> 2,
   assignment_date |-> 20240122, status |-> "active", created_by |-> 2],
  [id |-> 3, base_id |-> 2, equipment_type_id |-> 1, personnel_id |-> 3,
   assignment_date |-> 20240201, status |-> "active", created_by |-> 3],
  [id |-> 4, base_id |-> 2, equipment_type_id |-> 5, personnel_id |-> 4,
   assignment_date |-> 20240205, status |-> "active", created_by |-> 3],
  [id |-> 5, base_id |-> 1, equipment_type_id |-> 3, personnel_id |-> 6,
   assignment_date |-> 20240210, status |-> "active", created_by |-> 2],
  [id |-> 6, base_id |-> 2, equipment_type_id |-> 7, personnel_id |-> 7,
   assignment_date |-> 20240215, status |-> "active", created_by |-> 3] }

SeedExpenditures == {
  [id |-> 1, base_id |-> 1, equipment_type_id |-> 9,  quantity |-> 5000],
  [id |-> 2, base_id |-> 2, equipment_type_id |-> 9,  quantity |-> 3000],
  [id |-> 3, base_id |-> 1, equipment_type_id |-> 10, quantity |-> 1000],
  [id |-> 4, base_id |-> 3, equipment_type_id |-> 9,  quantity |-> 2500] }

SeedAuditLogs == {
  [id |-> 1, user_id |-> 1, action |-> "SYSTEM_INIT",
   entity_type |-> "SYSTEM", entity_id |-> 0] }

\* ------------------------------------------------------------------------
\* State
\* ------------------------------------------------------------------------
VARIABLES
  assets,        \* table assets
  purchases,     \* table purchases
  transfers,     \* table transfers
  assignments,   \* table assignments
  expenditures,  \* table expenditures
  audit_logs,    \* table audit_logs
  error_log,     \* what logger.error recorded about failed audit inserts
  inflight,      \* per request slot: the handler's position and locals
  resp,          \* the response being sent, with the request it answers
  created,       \* the (entity type, entity id) of every create answered 201
  users,         \* table users
  app,           \* the state of the React component App
  apiService,    \* the ApiService singleton of the frontend
  dashboard      \* the state of the React component Dashboard

vars == <<assets, purchases, transfers, assignments, expenditures,
          audit_logs, error_log, inflight, resp, created, users, app,
          apiService, dashboard>>

store == <<assets, purchases, transfers, assignments, expenditures,
           audit_logs, users>>

frontend == <<app, apiService, dashboard>>

\* ------------------------------------------------------------------------
\* Request inputs
\* ------------------------------------------------------------------------
NoBody == [base_id |-> Absent, from_base_id |-> Absent, to_base_id |-> Absent,
           equipment_type_id |-> Absent, personnel_id |-> Absent,
           quantity |-> Absent, date |-> Absent, status |-> Absent,
           created_by |-> Absent, email |-> Absent, password |-> Absent]

\* req.query: the parameters the handlers read, and those the Dashboard
\* component sends
NoQuery == [base_id |-> Absent, date_from |-> Absent, date_to |-> Absent,
           limit |-> Absent, baseId |-> Absent, startDate |-> Absent,
           endDate |-> Absent, equipmentTypeId |-> Absent]

\* the filters of the Dashboard component before any is chosen ('' is kept
\* as Absent: both are falsy)
NoFilters == [startDate |-> Absent, endDate |-> Absent, baseId |-> Absent,
             equipmentTypeId |-> Absent]

NoUser == [id |-> 0, role |-> "none", base_id |-> Null]

NoMetrics == [openingBalance |-> 0, purchases |-> 0, transferIn |-> 0,
              transferOut |-> 0, assigned |-> 0, expended |-> 0]

Idle == [pc |-> "idle", op |-> "none", user |-> NoUser, body |-> NoBody,
         query |-> NoQuery, row |-> {}, m |-> NoMetrics]

\* the users whose tokens the requests of the model carry
Actors == {u \in Users : u.id \in {1, 2, 4}}

\* the Authorization header of a request: no bearer token, a token that
\* jwt.verify rejects (bad signature, or expired), or a token signed at login
\* whose payload is the user
NoToken == [state |-> "missing", user |-> NoUser]
InvalidToken == [state |-> "invalid", user |-> NoUser]
ExpiredToken == [state |-> "expired", user |-> NoUser]
TokenOf(user) == [state |-> "valid", user |-> user]
Tokens(payloads) == {TokenOf(u) : u \in payloads}
ActorTokens == Tokens(Actors)

PurchaseBaseIds == {Absent, Num(1), Num(2), Str(1)}
TransferFromIds == {Absent, Num(1), Num(2), Str(1)}
TransferToIds == {Absent, Num(1), Num(3), Str(1)}
EquipmentValues == {Absent, Num(1)}
PersonnelValues == {Absent, Num(1)}
QuantityValues == {Num(0), Num(-1), Num(5)}
DateValues == {Absent, Str(20240301)}

PurchaseBodies ==
  {[NoBody EXCEPT !.base_id = b, !.equipment_type_id = e, !.quantity = q,
                  !.date = d] :
     b \in PurchaseBaseIds, e \in EquipmentValues, q \in QuantityValues,
     d \in DateValues}

TransferBodies ==
  {[NoBody EXCEPT !.from_base_id = f, !.to_base_id = t,
                  !.equipment_type_id = e, !.quantity = q, !.date = d] :
     f \in TransferFromIds, t \in TransferToIds, e \in EquipmentValues,
     q \in QuantityValues, d \in DateValues}

AssignmentBodies ==
  {[NoBody EXCEPT !.base_id = b, !.equipment_type_id = e,
                  !.personnel_id = n, !.date = d] :
     b \in PurchaseBaseIds, e \in EquipmentValues, n \in PersonnelValues,
     d \in DateValues}

\* req.query.base_id is a string when present; no base has id 9
Queries ==
  {[NoQuery EXCEPT !.base_id = b] : b \in {Absent, Str(1), Str(2), Str(9)}}

\* the query strings of the list requests and of the audit-log requests
ListQueries == {[NoQuery EXCEPT !.base_id = b] : b \in {Absent, Str(2)}}
AuditQueries == {[NoQuery EXCEPT !.limit = n] : n \in {Absent, Str(1)}}

\* dashboard requests without parameters, and with a base and a date range
DateQueries ==
  {NoQuery,
   [NoQuery EXCEPT !.base_id = Str(1), !.date_from = Str(20240201),
                   !.date_to = Str(20240229)]}

\* the email of a user is modelled by the user's id (the column is UNIQUE);
\* no user has email 9
EmailOf(u) == Str(u.id)
UnknownEmail == Str(9)

\* 'demo123', the password of every seeded user, and another password
DemoPassword == Str(123)
WrongPassword == Str(0)

LoginBodies ==
  {[NoBody EXCEPT !.email = e, !.password = w] :
     e \in {Absent, Str(2), Str(4), UnknownEmail},
     w \in {Absent, DemoPassword, WrongPassword}}

\* every Authorization header of the model
ApiTokens == {NoToken, InvalidToken, ExpiredToken} \cup ActorTokens

\* a status string of the payload other than the defaults ('completed')
Completed == Str(3)

\* payloads of the requests that reach every route: well formed, well
\* formed with creator and status fields of their own, and one without its
\* date
ApiFields == {<<Absent, Absent, Absent>>, <<Str(20240301), Absent, Absent>>,
              <<Str(20240301), Num(1), Completed>>}

ApiPurchaseBodies ==
  {[NoBody EXCEPT !.base_id = Num(1), !.equipment_type_id = Num(1),
                  !.quantity = Num(5), !.date = c[1], !.created_by = c[2],
                  !.status = c[3]] : c \in ApiFields}

ApiTransferBodies ==
  {[NoBody EXCEPT !.from_base_id = Num(1), !.to_base_id = Num(2),
                  !.equipment_type_id = Num(1), !.quantity = Num(5),
                  !.date = c[1], !.created_by = c[2], !.status = c[3]] :
     c \in ApiFields}

ApiAssignmentBodies ==
  {[NoBody EXCEPT !.base_id = Num(1), !.equipment_type_id = Num(1),
                  !.personnel_id = Num(1), !.date = c[1], !.created_by = c[2],
                  !.status = c[3]] : c \in ApiFields}

\* well-formed payloads, for the specification of concurrent requests
ConcPurchaseBodies ==
  {[NoBody EXCEPT !.base_id = Num(b), !.equipment_type_id = Num(1),
                  !.quantity = Num(5), !.date = Str(20240301)] :
     b \in {1, 2}}

ConcTransferBodies ==
  {[NoBody EXCEPT !.from_base_id = Num(1), !.to_base_id = Num(2),
                  !.equipment_type_id = Num(1), !.quantity = Num(5),
                  !.date = Str(20240301)],
   [NoBody EXCEPT !.from_base_id = Num(2), !.to_base_id = Num(1),
                  !.equipment_type_id = Num(1), !.quantity = Num(5),
                  !.date = Str(20240301)]}

ConcAssignmentBodies ==
  {[NoBody EXCEPT !.base_id = Num(1), !.equipment_type_id = Num(1),
                  !.personnel_id = Num(1), !.date = Str(20240301)]}

\* ------------------------------------------------------------------------
\* Responses
\* ------------------------------------------------------------------------
Response(op, token, body, query, status, err, data) ==
  [op |-> op, token |-> token.state, user |-> token.user, body |-> body,
   query |-> query, status |-> status, err |-> err, data |-> data]

NoResponse ==
  Response("none", [state |-> "none", user |-> NoUser], NoBody, NoQuery, 0,
           "none", {})

\* the error kind of the specification's taxonomy, by HTTP status
Kind(status) ==
  CASE status = 400 -> "ValidationError"
    [] status = 401 -> "Unauthorized"
    [] status = 403 -> "Forbidden"
    [] status = 500 -> "StoreFailure"
    [] OTHER -> "none"

\* ------------------------------------------------------------------------
\* Middleware
\* ------------------------------------------------------------------------
\* authenticateToken: "next" when the request passes with req.user set to the
\* payload of the token, else the answer of the middleware
\* authenticateToken as it would be if it looked the user of the token up and
\* refused a token whose user was deactivated or changed since the login
authenticateToken_reloadsUser(token) ==
  CASE token.state = "missing" -> "noToken"
    [] token.state \in {"invalid", "expired"} -> "badToken"
    [] \A u \in users : ~u.is_active \/ u.id # token.user.id
                          \/ u.role # token.user.role
                          \/ u.base_id # token.user.base_id -> "badToken"
    [] OTHER -> "next"

authenticateToken(token) ==
  CASE token.state = "missing" -> "noToken"
    [] token.state \in {"invalid", "expired"} -> "badToken"
    [] OTHER -> "next"

\* checkRole as it would be if it let the logistics role through
checkRole_admitsLogistics(allowedRoles, user) ==
  user.role \in allowedRoles \cup {"logistics"}

\* checkRole(...allowedRoles): TRUE when the request passes
checkRole(allowedRoles, user) == user.role \in allowedRoles

\* ------------------------------------------------------------------------
\* Store
\* ------------------------------------------------------------------------
NextId(table) == Cardinality(table) + 1

RowsAdded == Cardinality(purchases \ SeedPurchases)
             + Cardinality(transfers \ SeedTransfers)
             + Cardinality(assignments \ SeedAssignments)

\* a bound integer parameter that references an existing row
PgRef(x, ids) == ~PgIsNull(x) /\ PgInt(x) \in ids

\* INSERT INTO purchases: the constraints of the table
PurchaseInsertOk(body) ==
  /\ PgRef(body.base_id, BaseIds)
  /\ PgRef(body.equipment_type_id, EquipmentTypeIds)
  /\ ~PgIsNull(body.quantity) /\ PgInt(body.quantity) > 0
  /\ ~PgIsNull(body.date)

PurchaseRow(body, user) ==
  [id |-> NextId(purchases), base_id |-> PgInt(body.base_id),
   equipment_type_id |-> PgInt(body.equipment_type_id),
   quantity |-> PgInt(body.quantity), purchase_date |-> PgInt(body.date),
   created_by |-> user.id]

\* INSERT INTO transfers: the constraints of the table
TransferInsertOk(body) ==
  /\ PgRef(body.from_base_id, BaseIds)
  /\ PgRef(body.to_base_id, BaseIds)
  /\ PgRef(body.equipment_type_id, EquipmentTypeIds)
  /\ ~PgIsNull(body.quantity) /\ PgInt(body.quantity) > 0
  /\ ~PgIsNull(body.date)
  /\ PgInt(body.from_base_id) # PgInt(body.to_base_id)

\* the row of a transfer as it would be if the payload's status and creator
\* were bound to the INSERT
TransferRow_fromPayload(body, user) ==
  [id |-> NextId(transfers), from_base_id |-> PgInt(body.from_base_id),
   to_base_id |-> PgInt(body.to_base_id),
   equipment_type_id |-> PgInt(body.equipment_type_id),
   quantity |-> PgInt(body.quantity), transfer_date |-> PgInt(body.date),
   status |-> IF Truthy(body.status) THEN "completed" ELSE "pending",
   created_by |-> IF Truthy(body.created_by) THEN PgInt(body.created_by)
                  ELSE user.id]

TransferRow(body, user) ==
  [id |-> NextId(transfers), from_base_id |-> PgInt(body.from_base_id),
   to_base_id |-> PgInt(body.to_base_id),
   equipment_type_id |-> PgInt(body.equipment_type_id),
   quantity |-> PgInt(body.quantity), transfer_date |-> PgInt(body.date),
   status |-> "pending", created_by |-> user.id]

\* INSERT INTO assignments: the constraints of the table
AssignmentInsertOk(body) ==
  /\ PgRef(body.base_id, BaseIds)
  /\ PgRef(body.equipment_type_id, EquipmentTypeIds)
  /\ PgRef(body.personnel_id, PersonnelIds)
  /\ ~PgIsNull(body.date)

AssignmentRow(body, user) ==
  [id |-> NextId(assignments), base_id |-> PgInt(body.base_id),
   equipment_type_id |-> PgInt(body.equipment_type_id),
   personnel_id |-> PgInt(body.personnel_id),
   assignment_date |-> PgInt(body.date), status |-> "active",
   created_by |-> user.id]

\* the audit row as it would be with the user id bound in place of the
\* entity id
AuditRow_bindsUserId(userId, action, entityType, entityId) ==
  [id |-> NextId(audit_logs), user_id |-> userId, action |-> action,
   entity_type |-> entityType, entity_id |-> userId]

AuditRow(userId, action, entityType, entityId) ==
  [id |-> NextId(audit_logs), user_id |-> userId, action |-> action,
   entity_type |-> entityType, entity_id |-> entityId]

\* ------------------------------------------------------------------------
\* Init
\* ------------------------------------------------------------------------
Init ==
  /\ assets = SeedAssets
  /\ purchases = SeedPurchases
  /\ transfers = SeedTransfers
  /\ assignments = SeedAssignments
  /\ expenditures = SeedExpenditures
  /\ audit_logs = SeedAuditLogs
  /\ error_log = {}
  /\ inflight = [p \in Procs |-> Idle]
  /\ resp = NoResponse
  /\ created = {}
  /\ users = SeedUsers
  /\ app = [user |-> NoUser, currentPage |-> "dashboard"]
  /\ apiService = [token |-> NoToken]
  /\ dashboard = [filters |-> NoFilters]

\* ------------------------------------------------------------------------
\* Create handlers
\* ------------------------------------------------------------------------
\* a new request is taken by the first idle slot; the previous response has
\* left the server
Starts(p) ==
  /\ resp = NoResponse
  /\ inflight[p].pc = "idle"
  /\ \A q \in Procs : q < p => inflight[q].pc # "idle"

\* a handler step of a request already in flight
Resumes(p, pc) ==
  /\ resp = NoResponse
  /\ inflight[p].pc = pc

\* Reject as it would be if a denied or invalid request were recorded in the
\* audit log
Reject_auditsDenied(op, token, body, query, status, err) ==
  /\ resp' = Response(op, token, body, query, status, err, {})
  /\ audit_logs' = IF status \in {400, 403}
                   THEN audit_logs \cup {[id |-> NextId(audit_logs),
                          user_id |-> token.user.id, action |-> "DENIED",
                          entity_type |-> "REQUEST", entity_id |-> 0]}
                   ELSE audit_logs
  /\ UNCHANGED <<assets, purchases, transfers, assignments, expenditures,
                 users, error_log, inflight, created, frontend>>

\* Reject as it would be if the catch block recorded the failed operation in
\* the audit log
Reject_auditsFailure(op, token, body, query, status, err) ==
  /\ resp' = Response(op, token, body, query, status, err, {})
  /\ audit_logs' = IF status = 500
                   THEN audit_logs \cup {[id |-> NextId(audit_logs),
                          user_id |-> token.user.id, action |-> "CREATE",
                          entity_type |-> "FAILED", entity_id |-> 0]}
                   ELSE audit_logs
  /\ UNCHANGED <<assets, purchases, transfers, assignments, expenditures,
                 users, error_log, inflight, created, frontend>>

\* the handler answers with an error and leaves the store alone
Reject(op, token, body, query, status, err) ==
  /\ resp' = Response(op, token, body, query, status, err, {})
  /\ UNCHANGED <<store, error_log, inflight, created, frontend>>

\* the handler's INSERT returned its row: the handler now awaits logAudit
AwaitAudit(p, op, user, body, row) ==
  /\ inflight' = [inflight EXCEPT ![p] =
       [Idle EXCEPT !.pc = "audit", !.op = op, !.user = user,
                    !.body = body, !.row = {row}]]
  /\ UNCHANGED <<audit_logs, error_log, resp, created, frontend>>

StatusOf(outcome) ==
  CASE outcome = "noToken" -> 401
    [] outcome = "badToken" -> 403
    [] outcome = "role" -> 403
    [] outcome = "ownBase" -> 403
    [] outcome = "required" -> 400
    [] outcome = "sameBase" -> 400
    [] outcome = "store" -> 500
    [] outcome = "insert" -> 201
    [] outcome = "rows" -> 200
    [] outcome = "invalidLogin" -> 401
    [] outcome = "wrongPassword" -> 401

\* POST /api/purchases as it would be if the handler validated the payload
\* before the role was checked
PurchaseOutcome_validatesFirst(user, body) ==
  IF \/ ~Truthy(body.base_id) \/ ~Truthy(body.equipment_type_id)
     \/ ~Truthy(body.quantity) \/ ~Truthy(body.date) THEN "required"
  ELSE IF ~checkRole({"admin", "commander"}, user) THEN "role"
  ELSE IF user.role = "commander" /\ ~StrictEq(body.base_id, user.base_id)
       THEN "ownBase"
  ELSE IF ~PurchaseInsertOk(body) THEN "store"
  ELSE "insert"

\* POST /api/purchases: checkRole, then the handler up to its INSERT
PurchaseOutcome(user, body) ==
  IF ~checkRole({"admin", "commander"}, user) THEN "role"
  ELSE IF \/ ~Truthy(body.base_id) \/ ~Truthy(body.equipment_type_id)
          \/ ~Truthy(body.quantity) \/ ~Truthy(body.date) THEN "required"
  ELSE IF user.role = "commander" /\ ~StrictEq(body.base_id, user.base_id)
       THEN "ownBase"
  ELSE IF ~PurchaseInsertOk(body) THEN "store"
  ELSE "insert"

\* POST /api/transfers as it would be without the commander's base check
TransferOutcome_noBaseCheck(user, body) ==
  IF ~checkRole({"admin", "commander", "logistics"}, user) THEN "role"
  ELSE IF \/ ~Truthy(body.from_base_id) \/ ~Truthy(body.to_base_id)
          \/ ~Truthy(body.equipment_type_id) \/ ~Truthy(body.quantity)
          \/ ~Truthy(body.date) THEN "required"
  ELSE IF StrictEq(body.from_base_id, body.to_base_id) THEN "sameBase"
  ELSE IF ~TransferInsertOk(body) THEN "store"
  ELSE "insert"

\* POST /api/transfers: checkRole, then the handler up to its INSERT
TransferOutcome(user, body) ==
  IF ~checkRole({"admin", "commander", "logistics"}, user) THEN "role"
  ELSE IF \/ ~Truthy(body.from_base_id) \/ ~Truthy(body.to_base_id)
          \/ ~Truthy(body.equipment_type_id) \/ ~Truthy(body.quantity)
          \/ ~Truthy(body.date) THEN "required"
  ELSE IF StrictEq(body.from_base_id, body.to_base_id) THEN "sameBase"
  ELSE IF /\ user.role = "commander"
          /\ ~StrictEq(body.from_base_id, user.base_id)
          /\ ~StrictEq(body.to_base_id, user.base_id) THEN "ownBase"
  ELSE IF ~TransferInsertOk(body) THEN "store"
  ELSE "insert"

\* POST /api/assignments: checkRole, then the handler up to its INSERT
AssignmentOutcome(user, body) ==
  IF ~checkRole({"admin", "commander"}, user) THEN "role"
  ELSE IF \/ ~Truthy(body.base_id) \/ ~Truthy(body.equipment_type_id)
          \/ ~Truthy(body.personnel_id) \/ ~Truthy(body.date)
       THEN "required"
  ELSE IF user.role = "commander" /\ ~StrictEq(body.base_id, user.base_id)
       THEN "ownBase"
  ELSE IF ~AssignmentInsertOk(body) THEN "store"
  ELSE "insert"

\* what the INSERT of a handler can do: it is not reached, it violates a
\* constraint, or it runs and either succeeds or fails with the store
Outcomes(outcome) ==
  IF outcome = "insert" THEN {"insert", "store"} ELSE {outcome}

\* a route behind authenticateToken: the rest of the chain runs only when
\* the middleware calls next()
Authenticated(token, outcome) ==
  IF authenticateToken(token) = "next" THEN outcome
  ELSE authenticateToken(token)

\* POST /api/purchases as it would be if the handler also added the purchased
\* quantity to the asset of that base and equipment type
PostPurchases_adjustsAssets(p, tokens, bodies, limit) ==
  /\ Starts(p)
  /\ \E token \in tokens, body \in bodies :
       \E outcome \in Outcomes(Authenticated(token,
                                  PurchaseOutcome(token.user, body))) :
         LET user == token.user
             row == PurchaseRow(body, user) IN
         IF outcome # "insert"
         THEN Reject("POST purchases", token, body, NoQuery,
                     StatusOf(outcome), outcome)
         ELSE /\ RowsAdded < limit
              /\ purchases' = purchases \cup {row}
              /\ assets' = {IF a.base_id = row.base_id
                               /\ a.equipment_type_id = row.equipment_type_id
                            THEN [a EXCEPT !.quantity = @ + row.quantity]
                            ELSE a : a \in assets}
              /\ AwaitAudit(p, "POST purchases", user, body, row)
              /\ UNCHANGED <<transfers, assignments, expenditures, users>>

PostPurchases(p, tokens, bodies, limit) ==
  /\ Starts(p)
  /\ \E token \in tokens, body \in bodies :
       \E outcome \in Outcomes(Authenticated(token,
                                  PurchaseOutcome(token.user, body))) :
         LET user == token.user IN
         IF outcome # "insert"
         THEN Reject("POST purchases", token, body, NoQuery,
                     StatusOf(outcome), outcome)
         ELSE /\ RowsAdded < limit
              /\ purchases' = purchases \cup {PurchaseRow(body, user)}
              /\ AwaitAudit(p, "POST purchases", user, body,
                            PurchaseRow(body, user))
              /\ UNCHANGED <<assets, transfers, assignments, expenditures, users>>

PostTransfers(p, tokens, bodies, limit) ==
  /\ Starts(p)
  /\ \E token \in tokens, body \in bodies :
       \E outcome \in Outcomes(Authenticated(token,
                                  TransferOutcome(token.user, body))) :
         LET user == token.user IN
         IF outcome # "insert"
         THEN Reject("POST transfers", token, body, NoQuery,
                     StatusOf(outcome), outcome)
         ELSE /\ RowsAdded < limit
              /\ transfers' = transfers \cup {TransferRow(body, user)}
              /\ AwaitAudit(p, "POST transfers", user, body,
                            TransferRow(body, user))
              /\ UNCHANGED <<assets, purchases, assignments, expenditures, users>>

PostAssignments(p, tokens, bodies, limit) ==
  /\ Starts(p)
  /\ \E token \in tokens, body \in bodies :
       \E outcome \in Outcomes(Authenticated(token,
                                  AssignmentOutcome(token.user, body))) :
         LET user == token.user IN
         IF outcome # "insert"
         THEN Reject("POST assignments", token, body, NoQuery,
                     StatusOf(outcome), outcome)
         ELSE /\ RowsAdded < limit
              /\ assignments' = assignments \cup {AssignmentRow(body, user)}
              /\ AwaitAudit(p, "POST assignments", user, body,
                            AssignmentRow(body, user))
              /\ UNCHANGED <<assets, purchases, transfers, expenditures, users>>

EntityType(op) ==
  CASE op = "POST purchases" -> "PURCHASE"
    [] op = "POST transfers" -> "TRANSFER"
    [] op = "POST assignments" -> "ASSIGNMENT"

\* logAudit as it would be if it kept the log short by dropping the oldest
\* entry
logAudit_rotates(userId, action, entityType, entityId, auditOk) ==
  IF auditOk
  THEN /\ audit_logs' = {al \in audit_logs : al.id > 1} \cup
            {AuditRow(userId, action, entityType, entityId)}
       /\ UNCHANGED error_log
  ELSE /\ error_log' = error_log \cup
            {[entity_type |-> entityType, entity_id |-> entityId]}
       /\ UNCHANGED audit_logs

\* logAudit: the INSERT into audit_logs succeeds, or it fails and the
\* failure is logged and swallowed
logAudit(userId, action, entityType, entityId, auditOk) ==
  IF auditOk
  THEN /\ audit_logs' = audit_logs \cup
            {AuditRow(userId, action, entityType, entityId)}
       /\ UNCHANGED error_log
  ELSE /\ error_log' = error_log \cup
            {[entity_type |-> entityType, entity_id |-> entityId]}
       /\ UNCHANGED audit_logs

\* the rest of a create handler as it would be if logAudit let the failure
\* of its INSERT through to the handler's catch block
CreateAudit_propagates(p) ==
  /\ Resumes(p, "audit")
  /\ \E auditOk \in BOOLEAN :
       LET h == inflight[p]
           row == CHOOSE r \in h.row : TRUE IN
       /\ logAudit(h.user.id, "CREATE", EntityType(h.op), row.id, auditOk)
       /\ resp' = IF auditOk
                  THEN Response(h.op, TokenOf(h.user), h.body, h.query, 201,
                                "none",
                                h.row)
                  ELSE Response(h.op, TokenOf(h.user), h.body, h.query, 500,
                                "store",
                                {})
       /\ created' = IF auditOk
                     THEN created \cup {[entity_type |-> EntityType(h.op),
                                         entity_id |-> row.id]}
                     ELSE created
       /\ inflight' = [inflight EXCEPT ![p] = Idle]
       /\ UNCHANGED <<assets, purchases, transfers, assignments, expenditures,
                    users, frontend>>

\* the rest of a create handler: await logAudit(...), then res.status(201)
CreateAudit(p) ==
  /\ Resumes(p, "audit")
  /\ \E auditOk \in BOOLEAN :
       LET h == inflight[p]
           row == CHOOSE r \in h.row : TRUE IN
       /\ logAudit(h.user.id, "CREATE", EntityType(h.op), row.id, auditOk)
       /\ resp' = Response(h.op, TokenOf(h.user), h.body, h.query, 201,
                           "none", h.row)
       /\ created' = created \cup
            {[entity_type |-> EntityType(h.op), entity_id |-> row.id]}
       /\ inflight' = [inflight EXCEPT ![p] = Idle]
       /\ UNCHANGED <<assets, purchases, transfers, assignments, expenditures,
                    users, frontend>>

\* the response has left the server
Deliver ==
  /\ resp # NoResponse
  /\ resp' = NoResponse
  /\ UNCHANGED <<store, error_log, inflight, created, frontend>>

\* ------------------------------------------------------------------------
\* POST /api/auth/login
\* ------------------------------------------------------------------------
\* bcrypt.compare(password, user.password_hash)
validPassword(password, user) == password = DemoPassword

\* SELECT * FROM users WHERE email = $1 AND is_active = true
ActiveByEmail(email) == {u \in users : EmailOf(u) = email /\ u.is_active}

\* the payload jwt.sign puts in the token
Payload(u) == [id |-> u.id, role |-> u.role, base_id |-> u.base_id]

\* logins that went past jwt.sign and did not fail at the UPDATE
Logins ==
  Cardinality(UNION {{<<u.id, n>> : n \in 1..u.last_login} : u \in users})
  + Cardinality({p \in Procs : inflight[p].pc = "lastLogin"})

\* the users whose role, base or is_active no longer is the seeded one
Changed ==
  {u \in users : [u EXCEPT !.last_login = 0] \notin SeedUsers}

\* an UPDATE of a row of users by the administrator of the database (the
\* API has no route that does it): the user is deactivated, or gets another
\* role or another base
AdminUpdatesUser(ids, limit) ==
  /\ Cardinality(Changed) < limit
  /\ \E u \in users \ Changed :
       /\ u.id \in ids
       /\ \E v \in {[u EXCEPT !.is_active = FALSE],
                     [u EXCEPT !.role = "logistics"],
                     [u EXCEPT !.role = "admin"],
                     [u EXCEPT !.base_id = Num(2)]} \ {u} :
            users' = (users \ {u}) \cup {v}
  /\ UNCHANGED <<assets, purchases, transfers, assignments, expenditures,
                 audit_logs, error_log, inflight, resp, created, frontend>>

\* POST /api/auth/login up to jwt.sign as it would be if a wrong password
\* had an answer of its own
LoginOutcome_tellsPassword(body) ==
  IF ~Truthy(body.email) \/ ~Truthy(body.password) THEN "required"
  ELSE IF ActiveByEmail(body.email) = {} THEN "invalidLogin"
  ELSE IF \E u \in ActiveByEmail(body.email) :
            ~validPassword(body.password, u) THEN "wrongPassword"
  ELSE "insert"

\* POST /api/auth/login up to jwt.sign ("insert": the handler goes on to its
\* UPDATE)
LoginOutcome(body) ==
  IF ~Truthy(body.email) \/ ~Truthy(body.password) THEN "required"
  ELSE IF ActiveByEmail(body.email) = {} THEN "invalidLogin"
  ELSE IF \E u \in ActiveByEmail(body.email) :
            ~validPassword(body.password, u) THEN "invalidLogin"
  ELSE "insert"

\* the handler starts: validation, the SELECT, bcrypt.compare and jwt.sign
\* (the last two touch no shared state)
PostLogin(p, bodies, limit) ==
  /\ Starts(p)
  /\ \E body \in bodies, up \in BOOLEAN :
       LET outcome == IF LoginOutcome(body) = "required" \/ up
                      THEN LoginOutcome(body) ELSE "store" IN
       IF outcome # "insert"
       THEN Reject("POST login", NoToken, body, NoQuery, StatusOf(outcome),
                   outcome)
       ELSE /\ Logins < limit
            /\ inflight' = [inflight EXCEPT ![p] =
                 [Idle EXCEPT !.pc = "lastLogin", !.op = "POST login",
                    !.body = body,
                    !.user = Payload(CHOOSE u \in ActiveByEmail(body.email) :
                                       TRUE)]]
            /\ UNCHANGED <<store, error_log, resp, created, frontend>>

\* UPDATE users SET last_login = NOW() WHERE id = $1
LoginUpdate(p) ==
  /\ Resumes(p, "lastLogin")
  /\ \E up \in BOOLEAN :
       LET h == inflight[p] IN
       IF ~up
       THEN /\ resp' = Response(h.op, NoToken, h.body, NoQuery, 500, "store",
                                {})
            /\ inflight' = [inflight EXCEPT ![p] = Idle]
            /\ UNCHANGED <<store, error_log, created, frontend>>
       ELSE /\ users' = {IF u.id = h.user.id
                         THEN [u EXCEPT !.last_login = @ + 1] ELSE u :
                         u \in users}
            /\ inflight' = [inflight EXCEPT ![p].pc = "loginAudit"]
            /\ UNCHANGED <<assets, purchases, transfers, assignments,
                           expenditures, audit_logs, error_log, resp,
                           created, frontend>>

\* await logAudit(user.id, 'LOGIN', 'USER', user.id, ...), then res.json
\* with the token and the user
LoginAudit(p) ==
  /\ Resumes(p, "loginAudit")
  /\ \E auditOk \in BOOLEAN :
       LET h == inflight[p] IN
       /\ logAudit(h.user.id, "LOGIN", "USER", h.user.id, auditOk)
       /\ resp' = Response(h.op, NoToken, h.body, NoQuery, 200, "none",
                           {TokenOf(h.user)})
       /\ inflight' = [inflight EXCEPT ![p] = Idle]
       /\ UNCHANGED <<assets, purchases, transfers, assignments,
                      expenditures, users, created, frontend>>

\* ------------------------------------------------------------------------
\* GET /api/dashboard/metrics
\* ------------------------------------------------------------------------
\* a WHERE clause on one base column: absent, or `column = $1` with its
\* bound parameter
NoFilter == [on |-> FALSE, val |-> Absent]
Where(val) == [on |-> TRUE, val |-> val]

\* baseFilter as it would be if the requested filter won over the role
\* baseFilter as it would be if an admin's base_id were honoured only in a
\* query that has no date range
baseFilter_datesFirst(user, query) ==
  IF user.role = "commander" THEN Where(user.base_id)
  ELSE IF Truthy(query.base_id) /\ user.role = "admin"
          /\ ~Truthy(query.date_from)
       THEN Where(query.base_id)
  ELSE NoFilter

baseFilter_honoursQuery(user, query) ==
  IF Truthy(query.base_id) /\ user.role \in {"admin", "commander"}
  THEN Where(query.base_id)
  ELSE IF user.role = "commander" THEN Where(user.base_id)
  ELSE NoFilter

\* `let baseFilter ...; if (role === 'commander') ... else if (base_id &&
\* role === 'admin') ...`
baseFilter(user, query) ==
  IF user.role = "commander" THEN Where(user.base_id)
  ELSE IF Truthy(query.base_id) /\ user.role = "admin"
       THEN Where(query.base_id)
  ELSE NoFilter

\* transfersInFilter as it would be if only the role restricted it
transfersInFilter_roleOnly(user, query) ==
  IF user.role = "commander" THEN Where(user.base_id) ELSE NoFilter

\* role === 'commander' ? 'WHERE to_base_id = $1'
\*                      : (base_id ? 'WHERE to_base_id = $1' : '')
transfersInFilter(user, query) ==
  IF user.role = "commander" THEN Where(user.base_id)
  ELSE IF Truthy(query.base_id) THEN Where(query.base_id)
  ELSE NoFilter

\* role === 'commander' ? 'WHERE from_base_id = $1'
\*                      : (base_id ? 'WHERE from_base_id = $1' : '')
\* transfersOutFilter as it would be if a user with a base and no base_id in
\* the query were restricted to the transfers leaving that base
transfersOutFilter_ownBase(user, query) ==
  IF user.role = "commander" THEN Where(user.base_id)
  ELSE IF Truthy(query.base_id) THEN Where(query.base_id)
  ELSE IF ~PgIsNull(user.base_id) THEN Where(user.base_id)
  ELSE NoFilter

transfersOutFilter(user, query) ==
  IF user.role = "commander" THEN Where(user.base_id)
  ELSE IF Truthy(query.base_id) THEN Where(query.base_id)
  ELSE NoFilter

\* the rows a WHERE clause on column col selects (a NULL parameter matches
\* no row)
Select(table, col, f) ==
  {r \in table : ~f.on \/ (~PgIsNull(f.val) /\ r[col] = PgInt(f.val))}

RECURSIVE SumQuantity(_)
SumQuantity(rows) ==
  IF rows = {} THEN 0
  ELSE LET r == CHOOSE x \in rows : TRUE
       IN r.quantity + SumQuantity(rows \ {r})

\* SUM(quantity): NULL over no row, else a bigint, which the driver hands
\* over as a decimal string
SqlSum(rows) == IF rows = {} THEN Null ELSE Str(SumQuantity(rows))

\* COUNT(*): a bigint, handed over as a decimal string
SqlCount(rows) == Str(Cardinality(rows))

\* the aggregate as it would be selected without COALESCE
Coalesce_absent(x) == x

\* COALESCE(x, 0)
Coalesce(x) == IF x.t = "null" THEN Str(0) ELSE x

\* parseInt of a query result (NaN, modelled as -1, when it is not numeric)
parseInt(x) == IF x.t \in {"str", "num"} THEN x.v ELSE -1

\* netMovement as it would be with transfers-out added instead of subtracted
netMovement_addsOut(m) == m.purchases + m.transferIn + m.transferOut

\* netMovement = purchases + transferIn - transferOut
netMovement(m) == m.purchases + m.transferIn - m.transferOut

\* closingBalance = openingBalance + netMovement
closingBalance(m) == m.openingBalance + netMovement(m)

MetricsData(m) ==
  [openingBalance |-> m.openingBalance, closingBalance |-> closingBalance(m),
   netMovement |-> netMovement(m), purchases |-> m.purchases,
   transferIn |-> m.transferIn, transferOut |-> m.transferOut,
   assigned |-> m.assigned, expended |-> m.expended]

\* a query of the handler failed: the catch block answers 500
MetricsFail(p) ==
  /\ resp' = Response("GET metrics", TokenOf(inflight[p].user), NoBody,
                      inflight[p].query, 500, "store", {})
  /\ inflight' = [inflight EXCEPT ![p] = Idle]

\* one more aggregate has been read: the handler awaits the next query
MetricsAwait(p, pc, field, value) ==
  /\ inflight' = [inflight EXCEPT ![p].pc = pc, ![p].m[field] = value]
  /\ UNCHANGED resp

\* the handler starts and reads the opening balance
GetDashboardMetrics(p, tokens, queries) ==
  /\ Starts(p)
  /\ \E token \in tokens, query \in queries, up \in BOOLEAN :
       LET user == token.user IN
       IF authenticateToken(token) # "next"
       THEN /\ up
            /\ Reject("GET metrics", token, NoBody, query,
                      StatusOf(authenticateToken(token)),
                      authenticateToken(token))
       ELSE IF ~up
       THEN Reject("GET metrics", token, NoBody, query, 500, "store")
       ELSE /\ inflight' = [inflight EXCEPT ![p] =
                 [Idle EXCEPT !.pc = "purchases", !.op = "GET metrics",
                    !.user = user, !.query = query,
                    !.m.openingBalance = parseInt(Coalesce(SqlSum(
                       Select(assets, "base_id", baseFilter(user, query)))))]]
            /\ UNCHANGED <<store, error_log, resp, created, frontend>>

MetricsPurchases(p) ==
  /\ Resumes(p, "purchases")
  /\ \E up \in BOOLEAN :
       LET h == inflight[p] IN
       IF ~up THEN MetricsFail(p)
       ELSE MetricsAwait(p, "transfersIn", "purchases",
              parseInt(Coalesce(SqlSum(
                Select(purchases, "base_id", baseFilter(h.user, h.query))))))
  /\ UNCHANGED <<store, error_log, created, frontend>>

MetricsTransfersIn(p) ==
  /\ Resumes(p, "transfersIn")
  /\ \E up \in BOOLEAN :
       LET h == inflight[p] IN
       IF ~up THEN MetricsFail(p)
       ELSE MetricsAwait(p, "transfersOut", "transferIn",
              parseInt(Coalesce(SqlSum(
                Select(transfers, "to_base_id",
                       transfersInFilter(h.user, h.query))))))
  /\ UNCHANGED <<store, error_log, created, frontend>>

MetricsTransfersOut(p) ==
  /\ Resumes(p, "transfersOut")
  /\ \E up \in BOOLEAN :
       LET h == inflight[p] IN
       IF ~up THEN MetricsFail(p)
       ELSE MetricsAwait(p, "assignments", "transferOut",
              parseInt(Coalesce(SqlSum(
                Select(transfers, "from_base_id",
                       transfersOutFilter(h.user, h.query))))))
  /\ UNCHANGED <<store, error_log, created, frontend>>

MetricsAssignments(p) ==
  /\ Resumes(p, "assignments")
  /\ \E up \in BOOLEAN :
       LET h == inflight[p] IN
       IF ~up THEN MetricsFail(p)
       ELSE MetricsAwait(p, "expenditures", "assigned",
              parseInt(Coalesce(SqlCount(
                {r \in Select(assignments, "base_id",
                              baseFilter(h.user, h.query)) :
                   r.status = "active"}))))
  /\ UNCHANGED <<store, error_log, created, frontend>>

\* the last query, then netMovement, closingBalance and res.json
MetricsExpenditures(p) ==
  /\ Resumes(p, "expenditures")
  /\ \E up \in BOOLEAN :
       LET h == inflight[p]
           m == [h.m EXCEPT !.expended =
                   parseInt(Coalesce(SqlSum(
                     Select(expenditures, "base_id",
                            baseFilter(h.user, h.query)))))] IN
       IF ~up THEN MetricsFail(p)
       ELSE /\ resp' = Response("GET metrics", TokenOf(h.user), NoBody, h.query,
                                200, "none", {MetricsData(m)})
            /\ inflight' = [inflight EXCEPT ![p] = Idle]
  /\ UNCHANGED <<store, error_log, created, frontend>>

Metrics(p) ==
  \/ MetricsPurchases(p)
  \/ MetricsTransfersIn(p)
  \/ MetricsTransfersOut(p)
  \/ MetricsAssignments(p)
  \/ MetricsExpenditures(p)

\* ------------------------------------------------------------------------
\* List handlers
\* ------------------------------------------------------------------------
\* GET /api/purchases: `if (req.user.role === 'commander') query += ' WHERE
\* p.base_id = $1'`; the JOINs on bases and equipment_types drop no row
\* (foreign keys), the LEFT JOIN on users drops none
PurchasesList(user) ==
  Select(purchases, "base_id",
         IF user.role = "commander" THEN Where(user.base_id) ELSE NoFilter)

\* GET /api/transfers as it would be without the commander's WHERE clause
TransfersList_unfiltered(user) == transfers

\* GET /api/transfers: ' WHERE (t.from_base_id = $1 OR t.to_base_id = $1)'
\* for a commander
TransfersList(user) ==
  IF user.role = "commander"
  THEN Select(transfers, "from_base_id", Where(user.base_id))
       \cup Select(transfers, "to_base_id", Where(user.base_id))
  ELSE transfers

\* GET /api/assignments: ' WHERE a.base_id = $1' for a commander
AssignmentsList(user) ==
  Select(assignments, "base_id",
         IF user.role = "commander" THEN Where(user.base_id) ELSE NoFilter)

\* the first n rows of `ORDER BY al.timestamp DESC` (ids grow with time)
Latest(rows, n) ==
  {r \in rows : Cardinality({q \in rows : q.id > r.id}) < n}

\* GET /api/audit-logs: `const { limit = 100, offset = 0 } = req.query`,
\* `JOIN users u ON al.user_id = u.id ... LIMIT $1 OFFSET $2`; the requests
\* of the model send no offset
AuditLogsList(query) ==
  Latest({al \in audit_logs : \E u \in users : u.id = al.user_id},
         IF query.limit = Absent THEN 100 ELSE PgInt(query.limit))

\* a handler that answers after one SELECT: the middleware chain answers,
\* or the query fails and the catch block answers 500, or the rows are sent
List(op, token, query, up, outcome, rows) ==
  /\ outcome # "rows" => up
  /\ resp' = IF outcome # "rows"
             THEN Response(op, token, NoBody, query, StatusOf(outcome),
                           outcome, {})
             ELSE IF ~up
             THEN Response(op, token, NoBody, query, 500, "store", {})
             ELSE Response(op, token, NoBody, query, 200, "none", rows)
  /\ UNCHANGED <<store, error_log, inflight, created, frontend>>

\* the chain of the audit-log route as it would be without checkRole
AdminChain_noCheck(user) == "rows"

\* checkRole('admin')
AdminChain(user) == IF checkRole({"admin"}, user) THEN "rows" ELSE "role"

GetPurchases(p, tokens, queries) ==
  /\ Starts(p)
  /\ \E token \in tokens, query \in queries, up \in BOOLEAN :
       List("GET purchases", token, query, up, Authenticated(token, "rows"),
            PurchasesList(token.user))

GetTransfers(p, tokens, queries) ==
  /\ Starts(p)
  /\ \E token \in tokens, query \in queries, up \in BOOLEAN :
       List("GET transfers", token, query, up, Authenticated(token, "rows"),
            TransfersList(token.user))

GetAssignments(p, tokens, queries) ==
  /\ Starts(p)
  /\ \E token \in tokens, query \in queries, up \in BOOLEAN :
       List("GET assignments", token, query, up, Authenticated(token, "rows"),
            AssignmentsList(token.user))

GetAuditLogs(p, tokens, queries) ==
  /\ Starts(p)
  /\ \E token \in tokens, query \in queries, up \in BOOLEAN :
       List("GET audit-logs", token, query, up,
            Authenticated(token, AdminChain(token.user)),
            AuditLogsList(query))

\* at most one dashboard request is in flight (dashboard requests only read,
\* so two of them do not affect each other)
OneDashboard == \A q \in Procs : inflight[q].op # "GET metrics"

\* ------------------------------------------------------------------------
\* Frontend: App, LoginPage, Dashboard, Purchases, ApiService
\* ------------------------------------------------------------------------
\* what the user types into the login form
AppLoginBodies ==
  {[NoBody EXCEPT !.email = e, !.password = pw] :
     e \in {Str(1), Str(2)}, pw \in {DemoPassword, WrongPassword}}

\* what the user chooses in the filter dialog of the dashboard
AppFilters ==
  {NoFilters,
   [NoFilters EXCEPT !.baseId = Str(1)],
   [NoFilters EXCEPT !.baseId = Str(2), !.startDate = Str(20240201),
                     !.endDate = Str(20240229)]}

AppPages == {"dashboard", "purchases"}

\* loadMetrics: the filter object, holding the non-empty values only, as
\* URLSearchParams sends it
filterParams(filters) ==
  LET Kept(x) == IF Truthy(x) THEN x ELSE Absent IN
  [NoQuery EXCEPT !.startDate = Kept(filters.startDate),
                  !.endDate = Kept(filters.endDate),
                  !.baseId = Kept(filters.baseId),
                  !.equipmentTypeId = Kept(filters.equipmentTypeId)]

\* LoginPage.handleLogin: apiService.login posts the form (the button is
\* disabled while a login is in flight)
handleLogin(p, bodies, limit) ==
  /\ app.user = NoUser
  /\ \A q \in Procs : inflight[q].op # "POST login"
  /\ PostLogin(p, bodies, limit)

\* App.handleLogout
handleLogout ==
  /\ app.user # NoUser
  /\ apiService' = [token |-> NoToken]
  /\ app' = [user |-> NoUser, currentPage |-> "dashboard"]
  /\ dashboard' = [filters |-> NoFilters]
  /\ UNCHANGED <<store, error_log, inflight, resp, created>>

\* the 24 hours of the token held by the frontend pass
TokenExpires ==
  /\ apiService.token.state = "valid"
  /\ apiService' = [token |-> ExpiredToken]
  /\ UNCHANGED <<store, error_log, inflight, resp, created, app, dashboard>>

\* setCurrentPage from the navigation; the Dashboard component loses its
\* state when it is unmounted
setCurrentPage(page) ==
  /\ app.user # NoUser
  /\ page # app.currentPage
  /\ app' = [app EXCEPT !.currentPage = page]
  /\ dashboard' = [filters |-> NoFilters]
  /\ UNCHANGED <<store, error_log, inflight, resp, created, apiService>>

\* setFilters from the filter dialog of the dashboard
setFilters(filters) ==
  /\ app.user # NoUser
  /\ app.currentPage = "dashboard"
  /\ filters # dashboard.filters
  /\ dashboard' = [filters |-> filters]
  /\ UNCHANGED <<store, error_log, inflight, resp, created, app, apiService>>

\* Dashboard.loadMetrics: on mount, on Apply and on Refresh
loadMetrics(p) ==
  /\ app.user # NoUser
  /\ app.currentPage = "dashboard"
  /\ OneDashboard
  /\ GetDashboardMetrics(p, {apiService.token},
                         {filterParams(dashboard.filters)})

\* Purchases.loadPurchases
loadPurchases(p) ==
  /\ app.user # NoUser
  /\ app.currentPage = "purchases"
  /\ GetPurchases(p, {apiService.token}, {NoQuery})

\* ApiService.request after the fetch, and its callers: a login answered
\* with a token sets the token and then the user of App; a 401 or 403 to any
\* other request clears the token
request ==
  /\ resp # NoResponse
  /\ resp' = NoResponse
  /\ IF resp.op = "POST login"
     THEN IF resp.status = 200
          THEN \E token \in resp.data :
                 /\ apiService' = [token |-> token]
                 /\ app' = [user |-> token.user, currentPage |-> "dashboard"]
          ELSE UNCHANGED <<app, apiService>>
     ELSE /\ apiService' = IF resp.status \in {401, 403}
                           THEN [token |-> NoToken] ELSE apiService
          /\ UNCHANGED app
  /\ UNCHANGED <<store, error_log, inflight, created, dashboard>>

\* ------------------------------------------------------------------------
\* Specifications
\* ------------------------------------------------------------------------
\* the create handlers under every payload of the request domains
Next ==
  \/ \E p \in Procs : PostPurchases(p, ActorTokens, PurchaseBodies, MaxRows)
  \/ \E p \in Procs : PostTransfers(p, ActorTokens, TransferBodies, MaxRows)
  \/ \E p \in Procs : PostAssignments(p, ActorTokens, AssignmentBodies, MaxRows)
  \/ \E p \in Procs : CreateAudit(p)
  \/ Deliver

Spec == Init /\ [][Next]_vars

\* well-formed payloads only, more rows: the interleavings of the create
\* handlers
NextConc ==
  \/ \E p \in Procs : PostPurchases(p, ActorTokens, ConcPurchaseBodies, MaxConcRows)
  \/ \E p \in Procs : PostTransfers(p, ActorTokens, ConcTransferBodies, MaxConcRows)
  \/ \E p \in Procs :
       PostAssignments(p, ActorTokens, ConcAssignmentBodies, MaxConcRows)
  \/ \E p \in Procs : CreateAudit(p)
  \/ Deliver

SpecConc == Init /\ [][NextConc]_vars

\* the dashboard, read while well-formed creates change the store
NextDash ==
  \/ \E p \in Procs :
       OneDashboard /\ GetDashboardMetrics(p, ActorTokens, Queries)
  \/ \E p \in Procs : Metrics(p)
  \/ \E p \in Procs : PostPurchases(p, ActorTokens, ConcPurchaseBodies, MaxDashRows)
  \/ \E p \in Procs : PostTransfers(p, ActorTokens, ConcTransferBodies, MaxDashRows)
  \/ \E p \in Procs :
       PostAssignments(p, ActorTokens, ConcAssignmentBodies, MaxDashRows)
  \/ \E p \in Procs : CreateAudit(p)
  \/ Deliver

SpecDash == Init /\ [][NextDash]_vars

\* every route behind authenticateToken, under every Authorization header
NextApi ==
  \/ \E p \in Procs : GetPurchases(p, ApiTokens, ListQueries)
  \/ \E p \in Procs : GetTransfers(p, ApiTokens, ListQueries)
  \/ \E p \in Procs : GetAssignments(p, ApiTokens, ListQueries)
  \/ \E p \in Procs : GetAuditLogs(p, ApiTokens, AuditQueries)
  \/ \E p \in Procs :
       OneDashboard /\ GetDashboardMetrics(p, ApiTokens, DateQueries)
  \/ \E p \in Procs : Metrics(p)
  \/ \E p \in Procs : PostPurchases(p, ApiTokens, ApiPurchaseBodies, MaxApiRows)
  \/ \E p \in Procs : PostTransfers(p, ApiTokens, ApiTransferBodies, MaxApiRows)
  \/ \E p \in Procs :
       PostAssignments(p, ApiTokens, ApiAssignmentBodies, MaxApiRows)
  \/ \E p \in Procs : CreateAudit(p)
  \/ Deliver

SpecApi == Init /\ [][NextApi]_vars

\* login, and requests that carry tokens issued before the users they name
\* were changed
NextLogin ==
  \/ \E p \in Procs : PostLogin(p, LoginBodies, MaxLogins)
  \/ \E p \in Procs : LoginUpdate(p)
  \/ \E p \in Procs : LoginAudit(p)
  \/ AdminUpdatesUser({2, 4}, MaxUserChanges)
  \/ \E p \in Procs : GetPurchases(p, ActorTokens, {NoQuery})
  \/ \E p \in Procs : GetAuditLogs(p, ActorTokens, {NoQuery})
  \/ \E p \in Procs :
       OneDashboard /\ GetDashboardMetrics(p, ActorTokens, {NoQuery})
  \/ \E p \in Procs : Metrics(p)
  \/ Deliver

SpecLogin == Init /\ [][NextLogin]_vars

\* the frontend driving the backend: one browser session
NextApp ==
  \/ \E p \in Procs : handleLogin(p, AppLoginBodies, MaxAppLogins)
  \/ \E p \in Procs : LoginUpdate(p)
  \/ \E p \in Procs : LoginAudit(p)
  \/ handleLogout
  \/ TokenExpires
  \/ \E page \in AppPages : setCurrentPage(page)
  \/ \E filters \in AppFilters : setFilters(filters)
  \/ \E p \in Procs : loadMetrics(p)
  \/ \E p \in Procs : Metrics(p)
  \/ \E p \in Procs : loadPurchases(p)
  \/ request

SpecApp == Init /\ [][NextApp]_vars

\* ------------------------------------------------------------------------
\* Claims about the dashboard (SpecDash)
\* ------------------------------------------------------------------------
\* the rows of one base, selected by value
RowsOfBase(table, col, b) == {r \in table : r[col] = b}

IsDashboard(h) == h.op = "GET metrics"

\* slot p has just read the aggregate that precedes position pc
ReadsUpTo(p, pc) ==
  /\ IsDashboard(inflight'[p])
  /\ inflight[p].pc # pc
  /\ inflight'[p].pc = pc

\* C1: every aggregate a commander's dashboard request reads is the
\* aggregate over the rows of the commander's own base (the base of the
\* token), whatever base filter the request carries: the asset sum, the
\* purchase sum, transfers-in by to-base, transfers-out by from-base, the
\* count of active assignments and the expenditure sum.
C1_CommanderOwnBase ==
  [][\A p \in Procs :
       LET h == inflight'[p]
           own == PgInt(h.user.base_id) IN
       /\ (ReadsUpTo(p, "purchases") /\ h.user.role = "commander")
            => h.m.openingBalance
                 = SumQuantity(RowsOfBase(assets, "base_id", own))
       /\ (ReadsUpTo(p, "transfersIn") /\ h.user.role = "commander")
            => h.m.purchases
                 = SumQuantity(RowsOfBase(purchases, "base_id", own))
       /\ (ReadsUpTo(p, "transfersOut") /\ h.user.role = "commander")
            => h.m.transferIn
                 = SumQuantity(RowsOfBase(transfers, "to_base_id", own))
       /\ (ReadsUpTo(p, "assignments") /\ h.user.role = "commander")
            => h.m.transferOut
                 = SumQuantity(RowsOfBase(transfers, "from_base_id", own))
       /\ (ReadsUpTo(p, "expenditures") /\ h.user.role = "commander")
            => h.m.assigned
                 = Cardinality({r \in RowsOfBase(assignments, "base_id", own) :
                                  r.status = "active"})
       /\ ( /\ inflight[p].pc = "expenditures"
            /\ inflight[p].user.role = "commander"
            /\ resp'.status = 200 )
            => \A d \in resp'.data :
                 /\ d.expended
                      = SumQuantity(RowsOfBase(expenditures, "base_id",
                                      PgInt(inflight[p].user.base_id)))
                 /\ d.openingBalance = inflight[p].m.openingBalance
                 /\ d.purchases = inflight[p].m.purchases
                 /\ d.transferIn = inflight[p].m.transferIn
                 /\ d.transferOut = inflight[p].m.transferOut
                 /\ d.assigned = inflight[p].m.assigned
    ]_vars

\* a commander of base 1 asked for base 2 and was answered with the figures
\* of base 1 while a purchase of base 2 had been added
C1_Witness ==
  /\ resp.op = "GET metrics" /\ resp.status = 200
  /\ resp.user.role = "commander" /\ resp.user.base_id = Num(1)
  /\ resp.query.base_id = Str(2)
  /\ \E r \in purchases \ SeedPurchases : r.base_id = 2
  /\ \A d \in resp.data : d.purchases = 150 /\ d.transferIn = 100
                          /\ d.transferOut = 30 /\ d.openingBalance = 1015

\* C2: within one dashboard request the base restriction of the asset,
\* purchase, assignment and expenditure aggregates is the base restriction
\* of the transfers-in and transfers-out aggregates, for every role and
\* every base filter.
C2_SameRestriction ==
  \A p \in Procs :
    IsDashboard(inflight[p]) =>
      /\ baseFilter(inflight[p].user, inflight[p].query)
           = transfersInFilter(inflight[p].user, inflight[p].query)
      /\ baseFilter(inflight[p].user, inflight[p].query)
           = transfersOutFilter(inflight[p].user, inflight[p].query)

\* C3: a successful dashboard response satisfies
\* netMovement = purchases + transferIn - transferOut and
\* closingBalance = openingBalance + netMovement over its own values.
C3_BalanceFormula ==
  (resp.op = "GET metrics" /\ resp.status = 200) =>
    /\ resp.data # {}
    /\ \A d \in resp.data :
         /\ d.netMovement = d.purchases + d.transferIn - d.transferOut
         /\ d.closingBalance = d.openingBalance + d.netMovement

\* the seeded figures of base Alpha: 1015 + (150 + 100 - 30) = 1235
C3_Witness ==
  /\ resp.op = "GET metrics" /\ resp.status = 200
  /\ \A d \in resp.data :
       /\ d.openingBalance = 1015 /\ d.purchases = 150
       /\ d.transferIn = 100 /\ d.transferOut = 30
       /\ d.netMovement = 220 /\ d.closingBalance = 1235

\* ------------------------------------------------------------------------
\* Claims about the create handlers
\* ------------------------------------------------------------------------
CreateOps == {"POST purchases", "POST transfers", "POST assignments"}

TableOf(entityType) ==
  CASE entityType = "PURCHASE" -> purchases
    [] entityType = "TRANSFER" -> transfers
    [] entityType = "ASSIGNMENT" -> assignments

\* the CREATE audit entries that record entity c
CreateEntries(c) ==
  {a \in audit_logs : /\ a.action = "CREATE"
                      /\ a.entity_type = c.entity_type
                      /\ a.entity_id = c.entity_id}

\* C4 as claimed: every create answered with success has exactly one CREATE
\* audit entry of its entity type and entity id.
C4_ExactlyOneEntry ==
  \A c \in created : Cardinality(CreateEntries(c)) = 1

\* C4: every create answered with success has exactly one CREATE audit entry
\* of its entity type and entity id, unless the insert of that entry failed,
\* and then it has none; no entry is duplicated, under every interleaving.
C4_OneEntryUnlessAuditFailed ==
  \A c \in created :
    Cardinality(CreateEntries(c)) = IF c \in error_log THEN 0 ELSE 1

\* two purchases were created concurrently: the one inserted second was
\* audited first, and both were answered
C4_Witness ==
  \E c1, c2 \in created :
    /\ c1.entity_type = "PURCHASE" /\ c2.entity_type = "PURCHASE"
    /\ c1.entity_id < c2.entity_id
    /\ \E a1 \in CreateEntries(c1), a2 \in CreateEntries(c2) : a2.id < a1.id

\* C5: when the audit insert fails after the business row was persisted, the
\* caller is still answered 201 with the created record and the row stays
\* in its table.
C5_AuditFailureSwallowed ==
  /\ \A e \in error_log :
       /\ e \in created
       /\ \E r \in TableOf(e.entity_type) : r.id = e.entity_id
  /\ (resp.op \in CreateOps /\ resp.status = 201) =>
       /\ resp.data # {}
       /\ resp.data \subseteq TableOf(EntityType(resp.op))

\* the response being sent is the 201 of a create whose audit insert failed
C5_Witness ==
  /\ resp.op \in CreateOps /\ resp.status = 201
  /\ \E r \in resp.data :
       /\ [entity_type |-> EntityType(resp.op), entity_id |-> r.id]
            \in error_log
       /\ r \in TableOf(EntityType(resp.op))
       /\ CreateEntries([entity_type |-> EntityType(resp.op),
                         entity_id |-> r.id]) = {}

\* the rules of a create request, each as its handler evaluates it
AllowedRoles(op) ==
  IF op = "POST transfers" THEN {"admin", "commander", "logistics"}
  ELSE {"admin", "commander"}

RequiredFields(op) ==
  CASE op = "POST purchases" ->
         {"base_id", "equipment_type_id", "quantity", "date"}
    [] op = "POST transfers" ->
         {"from_base_id", "to_base_id", "equipment_type_id", "quantity",
          "date"}
    [] op = "POST assignments" ->
         {"base_id", "equipment_type_id", "personnel_id", "date"}

FailsRequired(op, body) == \E f \in RequiredFields(op) : ~Truthy(body[f])

FailsStructure(op, body) ==
  op = "POST transfers" /\ body.from_base_id = body.to_base_id

FailsRole(op, user) == user.role \notin AllowedRoles(op)

FailsOwnership(op, user, body) ==
  /\ user.role = "commander"
  /\ IF op = "POST transfers"
     THEN body.from_base_id # user.base_id /\ body.to_base_id # user.base_id
     ELSE body.base_id # user.base_id

\* the response reports rule `first` when one fails, and no rule otherwise
Reports(first) ==
  IF first # "none"
  THEN /\ resp.err = first
       /\ Kind(resp.status) = IF first \in {"required", "sameBase"}
                              THEN "ValidationError" ELSE "Forbidden"
  ELSE resp.status \in {201, 500}

\* C6 as claimed: the rejection reported is that of the first failing rule in
\* the order required fields, structural invariant, role, base ownership.
C6_ClaimedOrder ==
  resp.op \in CreateOps =>
    Reports(IF FailsRequired(resp.op, resp.body) THEN "required"
            ELSE IF FailsStructure(resp.op, resp.body) THEN "sameBase"
            ELSE IF FailsRole(resp.op, resp.user) THEN "role"
            ELSE IF FailsOwnership(resp.op, resp.user, resp.body)
                 THEN "ownBase"
            ELSE "none")

\* C6: the rejection reported is that of the first failing rule in the order
\* role allowed for the operation, required fields, structural invariant,
\* commander base ownership (each rule as the handler evaluates it); so a
\* request that fails both the role check and the required-field check is
\* rejected as Forbidden.
C6_CodeOrder ==
  resp.op \in CreateOps =>
    Reports(IF FailsRole(resp.op, resp.user) THEN "role"
            ELSE IF FailsRequired(resp.op, resp.body) THEN "required"
            ELSE IF FailsStructure(resp.op, resp.body) THEN "sameBase"
            ELSE IF FailsOwnership(resp.op, resp.user, resp.body)
                 THEN "ownBase"
            ELSE "none")

\* a logistics user's create-Purchase without base_id is answered 403
C6_Witness ==
  /\ resp.op = "POST purchases" /\ resp.user.role = "logistics"
  /\ FailsRequired(resp.op, resp.body)
  /\ resp.status = 403

UserById(id) == CHOOSE u \in Users : u.id = id

\* C7: a logistics user's create-Purchase or create-Assignment is answered
\* 403 whatever the payload, and leaves neither a business row nor an audit
\* entry; a logistics user's create-Transfer between two distinct bases is
\* not rejected by the role or ownership rules.
C7_LogisticsWrites ==
  /\ ( /\ resp.op \in {"POST purchases", "POST assignments"}
       /\ resp.user.role = "logistics" )
       => (resp.status = 403 /\ resp.data = {})
  /\ \A r \in (purchases \ SeedPurchases) \cup (assignments \ SeedAssignments) :
       UserById(r.created_by).role # "logistics"
  /\ \A a \in audit_logs :
       (a.action = "CREATE" /\ a.entity_type \in {"PURCHASE", "ASSIGNMENT"})
         => UserById(a.user_id).role # "logistics"
  /\ ( /\ resp.op = "POST transfers"
       /\ resp.user.role = "logistics"
       /\ ~FailsRequired(resp.op, resp.body)
       /\ PgInt(resp.body.from_base_id) # PgInt(resp.body.to_base_id) )
       => resp.status \in {201, 500}
  /\ ( /\ resp.op = "POST transfers"
       /\ resp.user.role = "logistics"
       /\ TransferInsertOk(resp.body)
       /\ ~FailsRequired(resp.op, resp.body) )
       => resp.err \in {"none", "store"}

\* a logistics user's create-Purchase with a complete, valid payload is
\* answered 403
C7_Witness ==
  /\ resp.op = "POST purchases" /\ resp.user.role = "logistics"
  /\ ~FailsRequired(resp.op, resp.body)
  /\ PurchaseInsertOk(resp.body)
  /\ resp.status = 403

\* C8 as claimed: a commander's create-Purchase or create-Assignment for
\* another base is answered 403 and persists nothing, an admin's
\* create-Purchase is accepted for any base, and a commander's otherwise
\* valid request for the own base is not answered 403, the base id being a
\* number or a numeric string.
C8_CommanderOwnBase ==
  /\ ( /\ resp.op \in {"POST purchases", "POST assignments"}
       /\ resp.user.role = "commander"
       /\ ~FailsRequired(resp.op, resp.body)
       /\ PgInt(resp.body.base_id) # PgInt(resp.user.base_id) )
       => (resp.status = 403 /\ resp.data = {})
  /\ \A r \in (purchases \ SeedPurchases) \cup (assignments \ SeedAssignments) :
       UserById(r.created_by).role = "commander"
         => r.base_id = PgInt(UserById(r.created_by).base_id)
  /\ ( /\ resp.op = "POST purchases"
       /\ resp.user.role = "admin"
       /\ ~FailsRequired(resp.op, resp.body) )
       => resp.status \notin {400, 403}
  /\ ( /\ resp.op = "POST purchases"
       /\ resp.user.role = "commander"
       /\ ~FailsRequired(resp.op, resp.body)
       /\ PurchaseInsertOk(resp.body)
       /\ PgInt(resp.body.base_id) = PgInt(resp.user.base_id) )
       => resp.status # 403
  /\ ( /\ resp.op = "POST assignments"
       /\ resp.user.role = "commander"
       /\ ~FailsRequired(resp.op, resp.body)
       /\ AssignmentInsertOk(resp.body)
       /\ PgInt(resp.body.base_id) = PgInt(resp.user.base_id) )
       => resp.status # 403

\* C9 as claimed: a create-Transfer with every required field (and a positive
\* quantity) whose from-base and to-base are the same base is answered with the structural-invariant
\* validation error, whatever the role and the JSON representation of the two
\* ids, and no stored Transfer has from-base equal to to-base.
C9_SameBaseRejected ==
  /\ ( /\ resp.op = "POST transfers"
       /\ ~FailsRequired(resp.op, resp.body)
       /\ PgInt(resp.body.quantity) > 0
       /\ PgInt(resp.body.from_base_id) = PgInt(resp.body.to_base_id) )
       => (resp.status = 400 /\ resp.err = "sameBase")
  /\ \A t \in transfers : t.from_base_id # t.to_base_id

Unauthenticated(r) == r.token \in {"missing", "invalid", "expired"}

\* C11: a request to a protected endpoint that carries no token, or an
\* invalid or expired token, is answered with the Unauthorized kind (401),
\* never with the Forbidden kind of a role denial, and the answer is given
\* before the role check, the payload validation and any store access: no
\* row is read or written and no handler is left in flight.
C11_Unauthorized ==
  [][(resp' # NoResponse /\ Unauthenticated(resp'))
       => /\ Kind(resp'.status) = "Unauthorized"
          /\ resp'.data = {}
          /\ UNCHANGED <<store, inflight>>]_vars

\* C12: the audit-log listing is sent only to an admin; a commander or a
\* logistics user who asks for it is answered with the Forbidden kind and
\* receives no audit entry.
C12_AuditLogsAdminOnly ==
  resp.op = "GET audit-logs" =>
    /\ resp.status = 200 => resp.user.role = "admin"
    /\ (resp.token = "valid" /\ resp.user.role \in {"commander", "logistics"})
         => Kind(resp.status) = "Forbidden" /\ resp.data = {}

\* a commander is denied the listing while the log holds the entry of a
\* create
C12_Witness ==
  /\ resp.op = "GET audit-logs"
  /\ resp.user.role = "commander"
  /\ resp.status = 403
  /\ \E al \in audit_logs : al.action = "CREATE"

\* ------------------------------------------------------------------------
\* Claims about rejected and failed creates (Spec)
\* ------------------------------------------------------------------------
\* C13: a create request rejected with a validation error or an
\* authorization error (missing field, same-base transfer, disallowed role,
\* foreign base for a commander) leaves the store unchanged: the step that
\* answers it adds or modifies no row of any table, audit_logs included.
C13_RejectionLeavesStore ==
  [][(resp' # NoResponse /\ resp'.op \in CreateOps
        /\ Kind(resp'.status) \in {"ValidationError", "Forbidden"})
       => UNCHANGED store]_vars

\* a commander's transfer between two foreign bases is rejected after
\* another create has added a row
C13_Witness ==
  /\ resp.op = "POST transfers"
  /\ resp.err = "ownBase"
  /\ resp.status = 403
  /\ RowsAdded = 1

\* the payload passes every rule of its handler except, possibly, a rule
\* about the sign of quantity
OtherwiseValid(r) ==
  /\ ~FailsRole(r.op, r.user)
  /\ \A f \in RequiredFields(r.op) \ {"quantity"} : Truthy(r.body[f])
  /\ ~FailsStructure(r.op, r.body)
  /\ ~FailsOwnership(r.op, r.user, r.body)
  /\ \A f \in {"base_id", "from_base_id", "to_base_id"} :
       r.body[f] = Absent \/ r.body[f].t = "num"

\* C14: a create-Purchase or create-Transfer whose quantity is zero or
\* negative is rejected by the handler itself with a ValidationError and is
\* never reported as a store failure.
C14_QuantityValidated ==
  (/\ resp.op \in {"POST purchases", "POST transfers"}
   /\ resp.body.quantity.t = "num"
   /\ resp.body.quantity.v <= 0
   /\ OtherwiseValid(resp))
    => Kind(resp.status) = "ValidationError"

\* C15: when the INSERT of the business row fails, the caller gets the
\* generic store-failure answer (500, no record), the step persists no
\* business row and no audit entry, records no create, and the handler is
\* over: the request is in no slot, so nothing retries it.
C15_StoreFailureAborts ==
  [][(resp' # NoResponse /\ resp'.op \in CreateOps /\ resp'.err = "store")
       => /\ resp'.status = 500
          /\ resp'.data = {}
          /\ UNCHANGED <<store, created>>
          /\ \A p \in Procs : inflight'[p] = inflight[p]]_vars

\* the store failed under a purchase that violates no constraint
C15_Witness ==
  /\ resp.op = "POST purchases"
  /\ resp.err = "store"
  /\ PurchaseInsertOk(resp.body)
  /\ purchases = SeedPurchases
  /\ audit_logs = SeedAuditLogs

\* ------------------------------------------------------------------------
\* Claims about the scope of the reads (SpecApi, SpecDash)
\* ------------------------------------------------------------------------
\* the rows dated inside the range of a query
InRange(rows, col, query) ==
  {r \in rows : /\ query.date_from.v <= r[col]
                /\ r[col] <= query.date_to.v}

\* C16: when a dashboard request supplies date_from and date_to, the
\* purchases aggregate it reads (from which it derives the net movement)
\* sums only the purchases of its scope dated inside the range.
C16_DateRange ==
  [][\A p \in Procs :
       LET h == inflight'[p] IN
       ( /\ ReadsUpTo(p, "transfersIn")
         /\ Truthy(h.query.date_from) /\ Truthy(h.query.date_to) )
         => h.m.purchases
              = SumQuantity(InRange(
                  Select(purchases, "base_id", baseFilter(h.user, h.query)),
                  "purchase_date", h.query))
    ]_vars

\* the rows of the base an admin asked for, or every row
AdminScope(table, col, query) ==
  IF query.base_id = Absent THEN table
  ELSE RowsOfBase(table, col, PgInt(query.base_id))

\* C17: every aggregate an admin's dashboard request reads is the aggregate
\* over exactly the base of the request's base filter when it has one, and
\* over all bases when it has none.
C17_AdminFilter ==
  [][\A p \in Procs :
       LET h == inflight'[p]
           g == inflight[p] IN
       /\ (ReadsUpTo(p, "purchases") /\ h.user.role = "admin")
            => h.m.openingBalance
                 = SumQuantity(AdminScope(assets, "base_id", h.query))
       /\ (ReadsUpTo(p, "transfersIn") /\ h.user.role = "admin")
            => h.m.purchases
                 = SumQuantity(AdminScope(purchases, "base_id", h.query))
       /\ (ReadsUpTo(p, "transfersOut") /\ h.user.role = "admin")
            => h.m.transferIn
                 = SumQuantity(AdminScope(transfers, "to_base_id", h.query))
       /\ (ReadsUpTo(p, "assignments") /\ h.user.role = "admin")
            => h.m.transferOut
                 = SumQuantity(AdminScope(transfers, "from_base_id", h.query))
       /\ (ReadsUpTo(p, "expenditures") /\ h.user.role = "admin")
            => h.m.assigned
                 = Cardinality({r \in AdminScope(assignments, "base_id",
                                                 h.query) :
                                  r.status = "active"})
       /\ (g.pc = "expenditures" /\ g.user.role = "admin"
            /\ resp'.status = 200)
            => \A d \in resp'.data :
                 d.expended
                   = SumQuantity(AdminScope(expenditures, "base_id", g.query))
    ]_vars

\* an admin asked for base 2 and was answered with the figures of base 2,
\* a transfer into base 2 added by the API included
C17_Witness ==
  /\ resp.op = "GET metrics" /\ resp.status = 200
  /\ resp.user.role = "admin"
  /\ resp.query.base_id = Str(2)
  /\ \E r \in transfers \ SeedTransfers : r.to_base_id = 2
  /\ \A d \in resp.data :
       d.transferIn = SumQuantity(RowsOfBase(transfers, "to_base_id", 2))

ListOps == {"GET purchases", "GET transfers", "GET assignments"}

\* C18: a list response to a commander holds only rows of the commander's
\* own base: purchases and assignments of that base, transfers from or to
\* that base, whatever the query string and whatever the store holds.
C18_CommanderLists ==
  (resp.op \in ListOps /\ resp.user.role = "commander") =>
    \A r \in resp.data :
      IF resp.op = "GET transfers"
      THEN \/ r.from_base_id = PgInt(resp.user.base_id)
           \/ r.to_base_id = PgInt(resp.user.base_id)
      ELSE r.base_id = PgInt(resp.user.base_id)

\* the commander of base 1 asked for the transfers of base 2 and received
\* transfers of base 1 only, the one just created included, while the table
\* holds transfers between other bases
C18_Witness ==
  /\ resp.op = "GET transfers" /\ resp.status = 200
  /\ resp.user.role = "commander" /\ resp.user.base_id = Num(1)
  /\ resp.query.base_id = Str(2)
  /\ resp.data \ SeedTransfers # {}
  /\ \E r \in transfers : r.from_base_id # 1 /\ r.to_base_id # 1

\* C19: every read of a logistics user covers the rows of all bases,
\* whatever base filter the request carries: the three lists hold every row
\* of their table, and the purchase, transfers-in and transfers-out
\* aggregates of the dashboard sum every row of theirs.
C19_LogisticsReadsAll ==
  [][/\ (resp' # NoResponse /\ resp'.op \in ListOps
         /\ resp'.user.role = "logistics" /\ resp'.status = 200)
         => resp'.data = CASE resp'.op = "GET purchases" -> purchases
                           [] resp'.op = "GET transfers" -> transfers
                           [] resp'.op = "GET assignments" -> assignments
     /\ \A p \in Procs :
          LET h == inflight'[p] IN
          /\ (ReadsUpTo(p, "transfersIn") /\ h.user.role = "logistics")
               => h.m.purchases = SumQuantity(purchases)
          /\ (ReadsUpTo(p, "transfersOut") /\ h.user.role = "logistics")
               => h.m.transferIn = SumQuantity(transfers)
          /\ (ReadsUpTo(p, "assignments") /\ h.user.role = "logistics")
               => h.m.transferOut = SumQuantity(transfers)
    ]_vars

\* ------------------------------------------------------------------------
\* Claims about the persisted rows (SpecApi)
\* ------------------------------------------------------------------------
\* C20: the row a create persists has the user of the token as its creator,
\* a created transfer has status pending and a created assignment has
\* status active, whatever creator and status the payload carries.
C20_CreatorAndStatus ==
  [][\A p \in Procs :
       LET h == inflight'[p] IN
       (inflight[p].pc = "idle" /\ h.pc = "audit") =>
         \A r \in h.row :
           /\ r \in (purchases' \ purchases) \cup (transfers' \ transfers)
                     \cup (assignments' \ assignments)
           /\ r.created_by = h.user.id
           /\ h.op = "POST transfers" => r.status = "pending"
           /\ h.op = "POST assignments" => r.status = "active"
    ]_vars

\* the commander of base 1 (user 2) has created a transfer from a payload
\* that names user 1 as creator and 'completed' as status
C20_Witness ==
  \E p \in Procs :
    /\ inflight[p].pc = "audit"
    /\ inflight[p].op = "POST transfers"
    /\ inflight[p].user.id = 2
    /\ inflight[p].body.created_by = Num(1)
    /\ inflight[p].body.status = Completed
    /\ inflight[p].row \subseteq transfers

\* ------------------------------------------------------------------------
\* Claims about the tables as a whole (SpecApi)
\* ------------------------------------------------------------------------
\* C21: no step of any API operation deletes or modifies a row of
\* purchases, transfers, assignments or audit_logs: every row of a table is
\* still in it, field for field, after the step (the tables only grow and
\* the audit log is append-only).
C21_RowsOnlyAdded ==
  [][/\ purchases \subseteq purchases'
     /\ transfers \subseteq transfers'
     /\ assignments \subseteq assignments'
     /\ audit_logs \subseteq audit_logs']_vars

\* a transfer and its audit entry have been added and every seeded row is
\* still there
C21_Witness ==
  /\ transfers \ SeedTransfers # {}
  /\ \E al \in audit_logs : al.action = "CREATE"
  /\ SeedTransfers \subseteq transfers
  /\ SeedAuditLogs \subseteq audit_logs

\* ------------------------------------------------------------------------
\* More claims about the dashboard (SpecDash)
\* ------------------------------------------------------------------------
\* C22: every aggregate the dashboard reads is a non-negative integer, and
\* it is 0 when no row matches its scope; a response made of six aggregates
\* over no rows reports 0 for netMovement and closingBalance too.
C22_ZeroOverNoRows ==
  [][\A p \in Procs :
       LET h == inflight'[p]
           g == inflight[p]
           f == baseFilter(h.user, h.query)
           Sound(value, rows) == value >= 0 /\ (rows = {} => value = 0) IN
       /\ ReadsUpTo(p, "purchases")
            => Sound(h.m.openingBalance, Select(assets, "base_id", f))
       /\ ReadsUpTo(p, "transfersIn")
            => Sound(h.m.purchases, Select(purchases, "base_id", f))
       /\ ReadsUpTo(p, "transfersOut")
            => Sound(h.m.transferIn,
                     Select(transfers, "to_base_id",
                            transfersInFilter(h.user, h.query)))
       /\ ReadsUpTo(p, "assignments")
            => Sound(h.m.transferOut,
                     Select(transfers, "from_base_id",
                            transfersOutFilter(h.user, h.query)))
       /\ ReadsUpTo(p, "expenditures")
            => Sound(h.m.assigned,
                     {r \in Select(assignments, "base_id", f) :
                        r.status = "active"})
       /\ (g.pc = "expenditures" /\ resp'.status = 200)
            => \A d \in resp'.data :
                 /\ Sound(d.expended,
                          Select(expenditures, "base_id",
                                 baseFilter(g.user, g.query)))
                 /\ (d.openingBalance = 0 /\ d.purchases = 0
                     /\ d.transferIn = 0 /\ d.transferOut = 0)
                      => d.netMovement = 0 /\ d.closingBalance = 0
    ]_vars

\* an admin asked for base 9, which has no row, and was answered with zeros
C22_Witness ==
  /\ resp.op = "GET metrics" /\ resp.status = 200
  /\ resp.query.base_id = Str(9)
  /\ resp.user.role = "admin"
  /\ \A d \in resp.data :
       /\ d.openingBalance = 0 /\ d.purchases = 0 /\ d.transferIn = 0
       /\ d.transferOut = 0 /\ d.assigned = 0 /\ d.expended = 0
       /\ d.netMovement = 0 /\ d.closingBalance = 0

\* ------------------------------------------------------------------------
\* Claims about login and tokens (SpecLogin)
\* ------------------------------------------------------------------------
IsLogin(r) == r # NoResponse /\ r.op = "POST login"

\* the step sends the response of a login
LoginAnswered == resp = NoResponse /\ IsLogin(resp')

\* the three failing cases of a login that carries an email and a password
UnknownUser(body) == \A u \in users : EmailOf(u) # body.email
InactiveUser(body) == \E u \in users : EmailOf(u) = body.email /\ ~u.is_active
BadPassword(body) == body.password # DemoPassword

FailingLogin(body) ==
  /\ Truthy(body.email) /\ Truthy(body.password)
  /\ UnknownUser(body) \/ InactiveUser(body) \/ BadPassword(body)

\* the LOGIN entries a step adds to the audit log
NewLogins == {al \in audit_logs' \ audit_logs : al.action = "LOGIN"}

\* the step is the start of a login handler, which answers at once
LoginRejected == LoginAnswered /\ inflight' = inflight

\* the step is the start of a login handler, which goes on to its UPDATE
LoginStarts(p) ==
  /\ inflight[p].pc = "idle"
  /\ inflight'[p].pc = "lastLogin"

\* a login that is one of the failing cases when its handler reads users is
\* answered at once: 401 with the one message, whatever the case (or the 500
\* of a failed SELECT, which precedes the three cases); no token is sent,
\* and neither users nor the audit log changes
FailuresAlike ==
  /\ \A p \in Procs : LoginStarts(p) => ~FailingLogin(inflight'[p].body)
  /\ (LoginRejected /\ FailingLogin(resp'.body))
       => /\ <<resp'.status, resp'.err>>
               \in {<<401, "invalidLogin">>, <<500, "store">>}
          /\ resp'.data = {}
          /\ UNCHANGED <<users, audit_logs>>

\* last_login is written, a LOGIN entry is added and a token is sent only
\* by a login handler that found an active user and the right password
OnlySuccessActs ==
  /\ \A u \in users, v \in users' :
       (u.id = v.id /\ u.last_login # v.last_login)
         => \E p \in Procs : /\ inflight[p].pc = "lastLogin"
                              /\ inflight[p].user.id = u.id
                              /\ ~BadPassword(inflight[p].body)
                              /\ v.last_login = u.last_login + 1
  /\ NewLogins # {}
       => \E p \in Procs : /\ inflight[p].pc = "loginAudit"
                            /\ ~BadPassword(inflight[p].body)
                            /\ resp'.status = 200
  /\ (LoginAnswered /\ resp'.data # {})
       => /\ resp'.status = 200
          /\ \E p \in Procs : /\ inflight[p].pc = "loginAudit"
                               /\ resp'.data = {TokenOf(inflight[p].user)}

\* C29 as claimed: the three failing cases of a login get the same answer
\* and have no effect, and a successful login, and only it, sends a token,
\* writes last_login and adds exactly one LOGIN entry to the audit log.
C29_ExactlyOneLoginEntry ==
  [][/\ FailuresAlike
     /\ OnlySuccessActs
     /\ (LoginAnswered /\ resp'.status = 200)
          => \A t \in resp'.data :
               Cardinality({al \in NewLogins : al.user_id = t.user.id
                                                /\ al.entity_id = t.user.id})
                 = 1
    ]_vars

\* C29: the three failing cases of a login get the same answer and have no
\* effect, and a successful login, and only it, sends a token, writes
\* last_login and adds one LOGIN entry to the audit log, or none when the
\* insert of that entry failed (the failure is logged and the login still
\* succeeds).
C29_OneLoginEntryUnlessAuditFailed ==
  [][/\ FailuresAlike
     /\ OnlySuccessActs
     /\ (LoginAnswered /\ resp'.status = 200)
          => \A t \in resp'.data :
               \/ /\ Cardinality(NewLogins) = 1
                  /\ \A al \in NewLogins : /\ al.user_id = t.user.id
                                            /\ al.entity_id = t.user.id
               \/ /\ NewLogins = {}
                  /\ [entity_type |-> "USER", entity_id |-> t.user.id]
                       \in error_log'
    ]_vars

\* a login with the email of a deactivated user and the right password has
\* been answered 401
C29_Witness ==
  /\ IsLogin(resp)
  /\ resp.status = 401
  /\ InactiveUser(resp.body)
  /\ ~BadPassword(resp.body)
  /\ \A al \in audit_logs : al.action # "LOGIN"

\* the row of users that the token of the response was issued for
UserOfToken(r) == CHOOSE u \in users : u.id = r.user.id

\* C30: a request with a valid token is decided by the role and the base in
\* the token, whatever has become of the user's row since the login: it is
\* never answered as unauthenticated, the audit log is read exactly when the
\* token's role is admin, and the purchases listed and the dashboard figures
\* are those of the token's role and base.
C30_TokenDecides ==
  (resp.token = "valid"
   /\ resp.op \in {"GET purchases", "GET audit-logs", "GET metrics"})
    => /\ resp.err \notin {"noToken", "badToken"}
       /\ resp.op = "GET metrics"
            => /\ resp.status \in {200, 500}
               /\ \A d \in resp.data :
                    LET f == baseFilter(resp.user, resp.query) IN
                    /\ d.openingBalance = parseInt(Coalesce(SqlSum(
                         Select(assets, "base_id", f))))
                    /\ d.purchases = parseInt(Coalesce(SqlSum(
                         Select(purchases, "base_id", f))))
       /\ resp.op = "GET audit-logs"
            => IF resp.user.role = "admin"
               THEN resp.status \in {200, 500}
               ELSE resp.status = 403 /\ resp.data = {}
       /\ resp.op = "GET purchases"
            => /\ resp.status \in {200, 500}
               /\ resp.status = 200 => resp.data = PurchasesList(resp.user)

\* a commander who was made admin, moved to another base or deactivated
\* after the login has been answered with the purchases of the token's base
C30_Witness ==
  /\ resp.op = "GET purchases"
  /\ resp.status = 200
  /\ resp.user.role = "commander"
  /\ resp.data # {}
  /\ \/ ~UserOfToken(resp).is_active
     \/ UserOfToken(resp).role # resp.user.role
     \/ UserOfToken(resp).base_id # resp.user.base_id

\* ------------------------------------------------------------------------
\* Claims about the figures of the dashboard (SpecDash)
\* ------------------------------------------------------------------------
\* the figures a dashboard request of this user and query reads from a store
Figures(user, query, as, ps, ts, es) ==
  LET f == baseFilter(user, query) IN
  [NoMetrics EXCEPT
     !.openingBalance = parseInt(Coalesce(SqlSum(Select(as, "base_id", f)))),
     !.purchases = parseInt(Coalesce(SqlSum(Select(ps, "base_id", f)))),
     !.transferIn = parseInt(Coalesce(SqlSum(
        Select(ts, "to_base_id", transfersInFilter(user, query))))),
     !.transferOut = parseInt(Coalesce(SqlSum(
        Select(ts, "from_base_id", transfersOutFilter(user, query))))),
     !.expended = parseInt(Coalesce(SqlSum(Select(es, "base_id", f))))]

\* C25: no step changes assets or expenditures, so every dashboard response
\* reports the opening balance and the expended value of the seeded tables
\* for its scope; and a step that inserts a purchase of quantity q raises
\* the closing balance of every scope holding its base by q and leaves the
\* opening balance.
C25_AssetsAndExpendituresKept ==
  [][/\ UNCHANGED <<assets, expenditures>>
     /\ (resp = NoResponse /\ resp'.op = "GET metrics" /\ resp'.status = 200)
          => \A d \in resp'.data :
               LET m == Figures(resp'.user, resp'.query, SeedAssets, {}, {},
                                SeedExpenditures) IN
               /\ d.openingBalance = m.openingBalance
               /\ d.expended = m.expended
     /\ \A row \in purchases' \ purchases :
          \A user \in Actors, query \in Queries :
            LET before == Figures(user, query, assets, purchases, transfers,
                                  expenditures)
                after == Figures(user, query, assets', purchases', transfers',
                                 expenditures') IN
            Select({row}, "base_id", baseFilter(user, query)) # {}
              => /\ closingBalance(after)
                      = closingBalance(before) + row.quantity
                 /\ after.openingBalance = before.openingBalance
    ]_vars

\* a dashboard request has been answered after a purchase was created
C25_Witness ==
  /\ resp.op = "GET metrics"
  /\ resp.status = 200
  /\ purchases # SeedPurchases
  /\ \E d \in resp.data : d.purchases > 0 /\ d.openingBalance > 0

\* a dashboard request without base restriction
Unrestricted(h) ==
  /\ IsDashboard(h)
  /\ h.user.role \in {"admin", "logistics"}
  /\ ~Truthy(h.query.base_id)

\* C27: when a dashboard request without base restriction reads the
\* transfers out and no transfer was written since it read the transfers in
\* (the figure it holds is still the one of the store), both figures are
\* equal; they reach the response as read, and there netMovement is
\* purchases and closingBalance is openingBalance + purchases.
C27_TransfersCancelOut ==
  [][\A p \in Procs :
       LET g == inflight[p]
           h == inflight'[p] IN
       /\ (/\ ReadsUpTo(p, "assignments")
           /\ Unrestricted(g)
           /\ g.m.transferIn
                = Figures(g.user, g.query, assets, purchases, transfers,
                          expenditures).transferIn)
            => h.m.transferOut = h.m.transferIn
       /\ (IsDashboard(g) /\ IsDashboard(h)
           /\ g.pc \in {"assignments", "expenditures"})
            => /\ h.m.transferIn = g.m.transferIn
               /\ h.m.transferOut = g.m.transferOut
       /\ (g.pc = "expenditures" /\ h.pc = "idle" /\ resp'.status = 200)
            => \A d \in resp'.data :
                 /\ d.transferIn = g.m.transferIn
                 /\ d.transferOut = g.m.transferOut
                 /\ d.transferIn = d.transferOut
                      => /\ d.netMovement = d.purchases
                         /\ d.closingBalance
                              = d.openingBalance + d.purchases
    ]_vars

\* a logistics user's dashboard request without base_id has been answered
\* with equal transfer figures that include a transfer created before
C27_Witness ==
  /\ resp.op = "GET metrics"
  /\ resp.status = 200
  /\ resp.user.role = "logistics"
  /\ ~Truthy(resp.query.base_id)
  /\ transfers # SeedTransfers
  /\ \E d \in resp.data :
       /\ d.transferIn = d.transferOut
       /\ d.transferIn = SumQuantity(transfers)
       /\ d.netMovement = d.purchases

\* the tables between the seeded rows and the rows of now: the tables only
\* grow, so every state a table went through during a request is one of them
Since(seed, table) == {seed \cup added : added \in SUBSET (table \ seed)}

\* the figures of a dashboard request read from one state of the store
Snapshot(user, query, ps, ts, gs) ==
  [Figures(user, query, assets, ps, ts, expenditures) EXCEPT
     !.assigned = Cardinality({r \in Select(gs, "base_id",
                                            baseFilter(user, query)) :
                                r.status = "active"})]

\* C26 as claimed: the figures of every dashboard response are those of one
\* single state of the store, whatever creates ran between the six reads.
C26_SingleStoreState ==
  (resp.op = "GET metrics" /\ resp.status = 200)
    => \A d \in resp.data :
         \E ps \in Since(SeedPurchases, purchases),
            ts \in Since(SeedTransfers, transfers),
            gs \in Since(SeedAssignments, assignments) :
           d = MetricsData(Snapshot(resp.user, resp.query, ps, ts, gs))

\* payloads and queries to compare a request with: the seeded users, the
\* same roles and bases under other ids, and queries with and without dates
ScopeUsers == Users \cup {[u EXCEPT !.id = @ + 4] : u \in Users}
ScopeQueries ==
  Queries \cup {[q EXCEPT !.date_from = Str(20240201),
                          !.date_to = Str(20240229)] : q \in Queries}

\* C24: the scope of a dashboard request in flight is the scope computed, in
\* this state or the next, for any user of the same role and base and any
\* query with the same base_id: it depends on nothing else, neither the
\* user's id, nor the dates of the query, nor the state of the store.
C24_ScopeOfRoleBaseFilter ==
  [][\A p \in Procs :
       LET h == inflight[p] IN
       IsDashboard(h)
         => \A u \in ScopeUsers, q \in ScopeQueries :
              (/\ u.role = h.user.role
               /\ u.base_id = h.user.base_id
               /\ q.base_id = h.query.base_id)
                => /\ baseFilter(u, q) = baseFilter(h.user, h.query)
                   /\ baseFilter(u, q)' = baseFilter(h.user, h.query)
    ]_vars

\* an admin's dashboard request with a base_id is in flight, having read the
\* purchases of that base, while a purchase was created since the seeding
C24_Witness ==
  \E p \in Procs :
    /\ IsDashboard(inflight[p])
    /\ inflight[p].pc = "transfersIn"
    /\ inflight[p].user.role = "admin"
    /\ inflight[p].query.base_id = Str(1)
    /\ purchases # SeedPurchases
    /\ baseFilter(inflight[p].user, inflight[p].query) = Where(Str(1))

\* ------------------------------------------------------------------------
\* Claims about the frontend (SpecApp)
\* ------------------------------------------------------------------------
\* C28 as claimed: whenever App holds a logged-in user, ApiService holds a
\* token, whatever was answered to the requests sent since the login.
C28_UserHasToken ==
  app.user # NoUser => apiService.token # NoToken

\* C23 as claimed: when an admin has chosen a base in the filter dialog, the
\* request the frontend sends is scoped by the backend to that base, and the
\* figures answered are those of that base.
C23_FilterChosenIsScopeApplied ==
  (/\ resp.op = "GET metrics"
   /\ resp.status = 200
   /\ resp.user.role = "admin"
   /\ Truthy(resp.query.baseId))
    => /\ baseFilter(resp.user, resp.query) = Where(resp.query.baseId)
       /\ \A d \in resp.data :
            /\ d.openingBalance
                 = SumQuantity({a \in assets :
                                  a.base_id = PgInt(resp.query.baseId)})
            /\ d.purchases
                 = SumQuantity({r \in purchases :
                                  r.base_id = PgInt(resp.query.baseId)})

====
